---- MODULE Spec2Model ----
(***************************************************************************)
(* The notification relay of src/src/server.ts: one PostgreSQL LISTEN      *)
(* client, one WebSocketServer on an http server, the connection handler,  *)
(* the notification handler with its MeiliSearch side call, the handler of *)
(* inbound messages, and shutdown.                                         *)
(* The runtime is one event loop: every handler runs to completion, so     *)
(* every handler is one action.  The library calls a handler makes         *)
(* (ws.send, ws.close, pgClient.end, server.close) are given their         *)
(* documented effect; whether a send raises is an input of the step.       *)
(***************************************************************************)
EXTENDS Integers, Sequences, FiniteSets, TLC

\* ------------------------------------------------------------------ bounds
MaxConns == 2
MaxNotifs == 1
MaxRelayNotifs == 2

Conns == 1..MaxConns

\* --------------------------------------------------------------- constants
GoingAway == 1001
PolicyViolation == 1008

ContactChanges == "contact_changes"
ContactLocks == "contact_locks"
Channels == {ContactChanges, ContactLocks}

NoTokenProvided == "No token provided"
InvalidTokenPayload == "Invalid token payload"
ServerShuttingDown == "Server shutting down"
\* the message of an exception raised by ws.send (whatever the transport says)
SendFailed == "send failed"

\* a claim or field that is not there (undefined in the program)
Absent == "<absent>"
Unknown == "Unknown"

\* ------------------------------------------------------------------ inputs
\* The token query parameter: null (no parameter), a string jwt.decode cannot
\* decode (it returns null), or a decodable token with its claims.
Token(kind, email, name, pref, sid) ==
    [kind |-> kind, email |-> email, name |-> name,
     preferred_username |-> pref, sid |-> sid]

TokNull == Token("null", Absent, Absent, Absent, Absent)
TokGarbage == Token("garbage", Absent, Absent, Absent, Absent)
TokNoEmail == Token("jwt", Absent, "Test User", Absent, "session-123")
TokFull == Token("jwt", "test@example.com", "Test User", Absent, "session-123")

\* the tokens connection requests carry
Tokens == {TokNull, TokGarbage, TokNoEmail, TokFull}

\* The tokens of the admission specification: no parameter, the empty
\* string (?token=), an undecodable string, and every decodable token whose
\* email and name claims are missing, empty or set, with or without the
\* preferred_username and sid claims.
TokEmpty == Token("empty", Absent, Absent, Absent, Absent)

ClaimTokens ==
    {TokNull, TokEmpty, TokGarbage}
      \cup {Token("jwt", email, name, pref, sid) :
               email \in {Absent, "", "test@example.com"},
               name \in {Absent, "", "Test User"},
               pref \in {Absent, "testuser"},
               sid \in {Absent, "session-123"}}

\* The raw payload of an upstream notification: the empty string (NOTIFY
\* without payload), text that is not JSON, the JSON text null, or a JSON
\* object with or without the fields action and data.
Payload(raw, action, data) ==
    [raw |-> raw, id |-> Absent, action |-> action, data |-> data]

\* The payloads the datastore sends on each channel.  A lock notification
\* carries contact_id / locked_by / locked_at and no action or data.
PayloadsOn(channel) ==
    IF channel = ContactChanges
    THEN {Payload("empty", Absent, Absent), Payload("malformed", Absent, Absent),
          Payload("null", Absent, Absent), Payload("object", "UPDATE", "record"),
          Payload("object", Absent, Absent)}
    ELSE {Payload("empty", Absent, Absent), Payload("malformed", Absent, Absent),
          Payload("object", Absent, Absent)}

\* The change-feed payloads of the relay specification: those above, a
\* DELETE of a record, an UPDATE without data, and the payload of the
\* integration test, {id: '123', action: 'update', data: {name: ...}}, whose
\* action is lower case and whose data ("nameOnly") holds no id.
ScenarioPayload == [Payload("object", "update", "nameOnly") EXCEPT !.id = "123"]

RelayPayloadsOn(channel) ==
    IF channel = ContactChanges
    THEN PayloadsOn(channel)
           \cup {Payload("object", "DELETE", "record"),
                 Payload("object", "UPDATE", Absent), ScenarioPayload}
    ELSE PayloadsOn(channel)

\* The text of an inbound message: not JSON, the JSON text null, or a JSON
\* object with or without the fields type and action.
Msg(raw, type, action) == [raw |-> raw, type |-> type, action |-> action]

MsgMalformed == Msg("malformed", Absent, Absent)
MsgNull == Msg("null", Absent, Absent)
MsgPing == Msg("object", "ping", Absent)
MsgLock == Msg("object", Absent, "lock")
MsgUnlock == Msg("object", Absent, "unlock")
MsgPingLock == Msg("object", "ping", "lock")
MsgCustom == Msg("object", "custom", Absent)

Messages ==
    {MsgMalformed, MsgNull, MsgPing, MsgLock, MsgUnlock, MsgPingLock, MsgCustom}

\* Which of the send calls of one handleMessage run raise: none, the first,
\* or both (the reply in the try block and the reply in the catch block).
SendFailures == {{}, {1}, {1, 2}}

\* ------------------------------------------------------------------- state
VARIABLES
    proc,       \* the process: "running", "crashed" (uncaught exception), "exit0", "exit1"
    pg,         \* pgClient: "new", "up", "lost", "ending", "ended"
    subs,       \* the channels pgClient has LISTENed on
    http,       \* the http server: "init", "listening", "closed"
    sd,         \* shutdown(): "none", "awaitEnd", "awaitClose", "resolved"
    clients,    \* wss.clients, in insertion order
    st,         \* readyState of each socket: "unused", "OPEN", "CLOSING", "CLOSED"
    pending,    \* the 'connection' event being emitted: [conn, token], or NoPending
    user,       \* userEmail / userName / sessionId attached to the socket
    handlers,   \* whether the 'message' / 'close' / 'error' handlers are installed
    welcome,    \* the welcome send on each socket: "none", "sent", "threw"
    closeInfo,  \* the close(code, reason) the server issued on each socket
    recv,       \* the broadcast frames handed to each socket, by notification id
    nseq,       \* notifications handled so far
    lastNotif,  \* the last notification handled and what its handler did
    syncing,    \* the number of MeiliSearch calls in flight
    known,      \* the sockets wss.clients has held since shutdown() was called
    lastMsg     \* the last inbound message and what the 'message' listener did

vars == <<proc, pg, subs, http, sd, clients, st, pending, user, handlers,
          welcome, closeInfo, recv, nseq, lastNotif, syncing, known, lastMsg>>

NoPending == [conn |-> 0, token |-> TokNull]
NoUser == [email |-> Absent, name |-> Absent, sessionId |-> Absent]
NoClose == [code |-> 0, reason |-> ""]
NoNotif ==
    [id |-> 0, channel |-> "", payload |-> Payload("empty", Absent, Absent),
     open |-> {}, sent |-> <<>>, frames |-> <<>>, got |-> {}, bad |-> 0,
     bcasts |-> 0, count |-> 0, mirror |-> "none", key |-> Absent,
     threw |-> FALSE]

NoMsg ==
    [conn |-> 0, msg |-> MsgCustom, open |-> FALSE, calls |-> <<>>,
     replies |-> <<>>, to |-> {}, ret |-> "<none>", data |-> MsgCustom,
     threw |-> FALSE]

Range(s) == {s[i] : i \in 1..Len(s)}

\* how many times c occurs in s
Times(s, c) == Len(SelectSeq(s, LAMBDA x : x = c))

Remove(s, c) == SelectSeq(s, LAMBDA x : x # c)

Init ==
    /\ proc = "running"
    /\ pg = "new"
    /\ subs = {}
    /\ http = "init"
    /\ sd = "none"
    /\ clients = <<>>
    /\ st = [c \in Conns |-> "unused"]
    /\ pending = NoPending
    /\ user = [c \in Conns |-> NoUser]
    /\ handlers = [c \in Conns |-> FALSE]
    /\ welcome = [c \in Conns |-> "none"]
    /\ closeInfo = [c \in Conns |-> NoClose]
    /\ recv = [c \in Conns |-> <<>>]
    /\ nseq = 0
    /\ lastNotif = NoNotif
    /\ syncing = 0
    /\ known = {}
    /\ lastMsg = NoMsg

\* A handler can run: the process is alive and no other handler is running.
Idle == proc = "running" /\ pending = NoPending

\* ------------------------------------------------------------ startup
\* main: connectDatabase().then(() => start()); a rejection ends the process.

\* pgClient.connect() resolves.
PgConnect ==
    /\ Idle /\ http = "init" /\ pg = "new"
    /\ pg' = "up"
    /\ UNCHANGED <<lastMsg, proc, subs, http, sd, clients, st, pending, user, handlers,
                   welcome, closeInfo, recv, nseq, lastNotif, syncing, known>>

\* LISTEN contact_changes, then LISTEN contact_locks, each awaited in turn.
NextListen == IF ContactChanges \notin subs THEN ContactChanges ELSE ContactLocks

PgListen ==
    /\ Idle /\ http = "init" /\ pg = "up" /\ subs # Channels
    /\ subs' = subs \cup {NextListen}
    /\ UNCHANGED <<lastMsg, proc, pg, http, sd, clients, st, pending, user, handlers,
                   welcome, closeInfo, recv, nseq, lastNotif, syncing, known>>

\* (mutant) start() is called once connect resolved, without waiting for the
\* LISTEN queries.
ConnectDatabaseDoneAfterConnect == pg = "up"

\* connectDatabase() has returned true: connect and both LISTENs are done and
\* the client is still connected when the pg_listening_channels query returns.
ConnectDatabaseDone == pg = "up" /\ subs = Channels

\* .then(() => wsServer.start()): server.listen, the relay accepts connections.
Start ==
    /\ Idle /\ http = "init" /\ ConnectDatabaseDone
    /\ http' = "listening"
    /\ UNCHANGED <<lastMsg, proc, pg, subs, sd, clients, st, pending, user, handlers,
                   welcome, closeInfo, recv, nseq, lastNotif, syncing, known>>

\* connect or a query rejects: connectDatabase rethrows, main's catch calls
\* process.exit(1).  After shutdown() has called pgClient.end() the pending
\* query can only reject.
ConnectFail ==
    /\ Idle /\ http = "init" /\ pg \in {"new", "up", "ending"}
    /\ proc' = "exit1"
    /\ UNCHANGED <<lastMsg, pg, subs, http, sd, clients, st, pending, user, handlers,
                   welcome, closeInfo, recv, nseq, lastNotif, syncing, known>>

\* pgClient.on('error'): the connection to the datastore is lost while the
\* relay runs.  The handler writes a log line and nothing else.
PgError ==
    /\ Idle /\ http = "listening" /\ pg = "up"
    /\ pg' = "lost"
    /\ UNCHANGED <<lastMsg, proc, subs, http, sd, clients, st, pending, user, handlers,
                   welcome, closeInfo, recv, nseq, lastNotif, syncing, known>>

\* ---------------------------------------------------------- admission
\* (mutant) only a missing claim counts, an empty one does not.
FalsyOnlyUndefined(v) == v = Absent

\* !v on a claim: the claim is missing or the empty string
Falsy(v) == v = Absent \/ v = ""

\* (mutant) preferred_username is taken before name.
validateTokenUsernameFirst(token) ==
    IF token.kind \in {"null", "empty"}
    THEN [ok |-> FALSE, error |-> NoTokenProvided, user |-> NoUser]
    ELSE IF token.kind = "garbage" \/ Falsy(token.email)
    THEN [ok |-> FALSE, error |-> InvalidTokenPayload, user |-> NoUser]
    ELSE [ok |-> TRUE, error |-> "",
          user |-> [email |-> token.email,
                    name |-> IF ~Falsy(token.preferred_username)
                             THEN token.preferred_username
                             ELSE IF ~Falsy(token.name) THEN token.name
                             ELSE Unknown,
                    sessionId |-> token.sid]]

\* (mutant) the email claim is not checked: only !decoded rejects.
validateTokenNoEmailCheck(token) ==
    IF token.kind \in {"null", "empty"}
    THEN [ok |-> FALSE, error |-> NoTokenProvided, user |-> NoUser]
    ELSE IF token.kind = "garbage"
    THEN [ok |-> FALSE, error |-> InvalidTokenPayload, user |-> NoUser]
    ELSE [ok |-> TRUE, error |-> "",
          user |-> [email |-> token.email, name |-> token.name,
                    sessionId |-> token.sid]]

validateToken(token) ==
    IF token.kind \in {"null", "empty"}
    THEN [ok |-> FALSE, error |-> NoTokenProvided, user |-> NoUser]
    ELSE IF token.kind = "garbage" \/ Falsy(token.email)
    THEN [ok |-> FALSE, error |-> InvalidTokenPayload, user |-> NoUser]
    ELSE [ok |-> TRUE, error |-> "",
          user |-> [email |-> token.email,
                    name |-> IF ~Falsy(token.name) THEN token.name
                             ELSE IF ~Falsy(token.preferred_username)
                             THEN token.preferred_username
                             ELSE Unknown,
                    sessionId |-> token.sid]]

\* (mutant) the welcome send is not covered by the catch: a send that raises
\* is followed by no close.
handleWebSocketConnectionNoCatch(token, sendThrows) ==
    LET v == validateToken(token) IN
    IF ~v.ok
    THEN [ret |-> FALSE, user |-> NoUser, welcome |-> "none",
          close |-> [code |-> PolicyViolation, reason |-> v.error],
          readyState |-> "CLOSING"]
    ELSE [ret |-> ~sendThrows, user |-> v.user,
          welcome |-> IF sendThrows THEN "threw" ELSE "sent",
          close |-> NoClose, readyState |-> "OPEN"]

\* handleWebSocketConnection(ws, req) on an OPEN socket: what it returns and
\* what it leaves on the socket.  sendThrows: ws.send raises on this call.
handleWebSocketConnection(token, sendThrows) ==
    LET v == validateToken(token) IN
    IF ~v.ok
    THEN [ret |-> FALSE, user |-> NoUser, welcome |-> "none",
          close |-> [code |-> PolicyViolation, reason |-> v.error],
          readyState |-> "CLOSING"]
    ELSE IF sendThrows
    THEN [ret |-> FALSE, user |-> v.user, welcome |-> "threw",
          close |-> [code |-> PolicyViolation, reason |-> SendFailed],
          readyState |-> "CLOSING"]
    ELSE [ret |-> TRUE, user |-> v.user, welcome |-> "sent",
          close |-> NoClose, readyState |-> "OPEN"]

\* The http server takes connections from server.listen to server.close.
Accepting == http = "listening"

\* A client completes the WebSocket handshake: the WebSocketServer puts the
\* socket into wss.clients and emits 'connection'.  Sockets are numbered in
\* the order they arrive and no socket is used twice.
Upgrade(c, token) ==
    /\ Idle /\ Accepting
    /\ st[c] = "unused" /\ \A d \in Conns : d < c => st[d] # "unused"
    /\ st' = [st EXCEPT ![c] = "OPEN"]
    /\ clients' = Append(clients, c)
    /\ pending' = [conn |-> c, token |-> token]
    /\ known' = IF sd = "none" THEN known ELSE known \cup {c}
    /\ UNCHANGED <<lastMsg, proc, pg, subs, http, sd, user, handlers, welcome,
                   closeInfo, recv, nseq, lastNotif, syncing>>

\* (mutant) the handlers are installed whatever handleWebSocketConnection
\* returned.
ConnectionHandlerNoReturn(sendThrows) ==
    /\ proc = "running" /\ pending # NoPending
    /\ LET c == pending.conn
           r == handleWebSocketConnection(pending.token, sendThrows)
       IN /\ user' = [user EXCEPT ![c] = r.user]
          /\ welcome' = [welcome EXCEPT ![c] = r.welcome]
          /\ closeInfo' = [closeInfo EXCEPT ![c] = r.close]
          /\ st' = [st EXCEPT ![c] = r.readyState]
          /\ handlers' = [handlers EXCEPT ![c] = TRUE]
    /\ pending' = NoPending
    /\ UNCHANGED <<lastMsg, proc, pg, subs, http, sd, clients, recv, nseq,
                   lastNotif, syncing, known>>

\* wss.on('connection'): handleWebSocketConnection, and the socket's handlers
\* when it returned true.
ConnectionHandler(sendThrows) ==
    /\ proc = "running" /\ pending # NoPending
    /\ LET c == pending.conn
           r == handleWebSocketConnection(pending.token, sendThrows)
       IN /\ user' = [user EXCEPT ![c] = r.user]
          /\ welcome' = [welcome EXCEPT ![c] = r.welcome]
          /\ closeInfo' = [closeInfo EXCEPT ![c] = r.close]
          /\ st' = [st EXCEPT ![c] = r.readyState]
          /\ handlers' = [handlers EXCEPT ![c] = r.ret]
    /\ pending' = NoPending
    /\ UNCHANGED <<lastMsg, proc, pg, subs, http, sd, clients, recv, nseq, lastNotif,
                   syncing, known>>

\* The peer sends a close frame on an open socket: the socket answers it and
\* is CLOSING until the transport is gone.
PeerClose(c) ==
    /\ Idle /\ st[c] = "OPEN"
    /\ st' = [st EXCEPT ![c] = "CLOSING"]
    /\ UNCHANGED <<lastMsg, proc, pg, subs, http, sd, clients, pending, user, handlers,
                   welcome, closeInfo, recv, nseq, lastNotif, syncing, known>>

\* The transport of a socket is gone (the closing handshake completed, or the
\* connection dropped): the socket is CLOSED, emits 'close', and the
\* WebSocketServer takes it out of wss.clients.
TransportClosed(c) ==
    /\ Idle /\ st[c] \in {"OPEN", "CLOSING"}
    /\ st' = [st EXCEPT ![c] = "CLOSED"]
    /\ clients' = Remove(clients, c)
    /\ UNCHANGED <<lastMsg, proc, pg, subs, http, sd, pending, user, handlers, welcome,
                   closeInfo, recv, nseq, lastNotif, syncing, known>>

\* GET /health: the connections field of the response.
HealthConnections == Len(clients)

\* ---------------------------------------------------------- broadcast
\* (mutant) the readyState of a client is not tested.
OpenClientsAnyState == clients

\* (mutant) the loop visits wss.clients twice.
OpenClientsTwice == SelectSeq(clients \o clients, LAMBDA c : st[c] = "OPEN")

\* The sockets broadcastNotification sends to: the members of wss.clients
\* whose readyState is OPEN, in the order forEach visits them.
OpenClients == SelectSeq(clients, LAMBDA c : st[c] = "OPEN")

\* JSON.parse of a notification payload: null (also what the handler takes
\* for an empty payload), or the object with its fields, a missing field
\* being undefined.
JSONparse(payload) ==
    [isNull |-> payload.raw \in {"empty", "null"}, id |-> payload.id,
     action |-> payload.action, data |-> payload.data]

\* JSON text: a string in quotes, the members of an object that are defined
\* (JSON.stringify leaves an undefined member out), separated by commas.
Quote(s) == "\"" \o s \o "\""

Defined(members) == SelectSeq(members, LAMBDA kv : kv[2] # Absent)

RECURSIVE Join(_)
Join(members) ==
    IF members = <<>> THEN ""
    ELSE Quote(Head(members)[1]) \o ":" \o Head(members)[2]
         \o (IF Tail(members) = <<>> THEN "" ELSE ",")
         \o Join(Tail(members))

ObjectText(members) == "{" \o Join(Defined(members)) \o "}"

OrAbsent(v, text) == IF v = Absent THEN Absent ELSE text

\* the row a change notification carries in data
DataText(data) ==
    IF data = "record"
    THEN ObjectText(<<<<"id", Quote("123")>>, <<"name", Quote("Updated Contact")>>>>)
    ELSE IF data = "nameOnly"
    THEN ObjectText(<<<<"name", Quote("Updated Contact")>>>>)
    ELSE Absent

\* JSON.stringify of a parsed payload
PayloadText(value) ==
    IF value.isNull THEN "null"
    ELSE ObjectText(<<<<"id", OrAbsent(value.id, Quote(value.id))>>,
                      <<"action", OrAbsent(value.action, Quote(value.action))>>,
                      <<"data", DataText(value.data)>>>>)

\* JSON.stringify(notification)
JSONstringify(notification) ==
    ObjectText(<<<<"channel", Quote(notification.channel)>>,
                 <<"payload", PayloadText(notification.payload)>>,
                 <<"timestamp", ToString(notification.timestamp)>>>>)

\* (mutant) every client is sent a frame stamped at its own send.
frameForStamped(client, notification) ==
    JSONstringify([notification EXCEPT !.timestamp = @ + client])

\* client.send(JSON.stringify(notification)): the text handed to one client.
\* The serialization is redone for every client, from the same object.
frameFor(client, notification) == JSONstringify(notification)

\* broadcastNotification(notification).  bad: the socket whose send raises on
\* this call (0: none does).  forEach has no handler around the send: the
\* exception ends the loop and leaves the function.
broadcastNotification(notification, bad) ==
    LET T == OpenClients
        k == IF \E i \in 1..Len(T) : T[i] = bad
             THEN CHOOSE i \in 1..Len(T) : T[i] = bad
             ELSE Len(T) + 1
        got == SubSeq(T, 1, k - 1)
    IN [got |-> got, frames |-> [i \in 1..Len(got) |-> frameFor(got[i], notification)],
        threw |-> k <= Len(T), count |-> Len(got)]

\* ------------------------------------------------------ search mirror
\* (mutant) syncToMeili without its try / catch: the TypeError of data.id
\* rejects the promise it returns.
syncToMeiliNoCatch(operation, data) ==
    IF data = Absent THEN "rejected"
    ELSE IF operation \in {"INSERT", "UPDATE"} THEN "add"
    ELSE IF operation = "DELETE" THEN "delete"
    ELSE "unknown"

\* syncToMeili(operation, data) up to its first await: "add" and "delete"
\* leave an index call in flight, "unknown" is the default branch, "caught"
\* is the TypeError of data.id on a missing record, absorbed by its catch.
syncToMeili(operation, data) ==
    IF data = Absent THEN "caught"
    ELSE IF operation \in {"INSERT", "UPDATE"} THEN "add"
    ELSE IF operation = "DELETE" THEN "delete"
    ELSE "unknown"

\* data.id, the key of the document added or deleted
DocumentId(data) == IF data = "record" THEN "123" ELSE Absent

\* --------------------------------------------------- upstream listener
\* msg.payload ? JSON.parse(msg.payload) : null
ParseThrows(payload) == payload.raw = "malformed"

ParsedNull(payload) == payload.raw \in {"empty", "null"}

\* (mutant) every notification is mirrored.
MirroredAlways(channel) == TRUE

\* if (msg.channel === 'contact_changes')
Mirrored(channel) == channel = ContactChanges

\* payload.operation on a null payload raises a TypeError.
MirrorThrows(channel, payload) == Mirrored(channel) /\ ParsedNull(payload)

\* (mutant) the handler awaits syncToMeili and broadcasts in a later step.
notificationHandlerAwaitSync(id, channel, payload, bad) ==
    LET open == Range(OpenClients)
        notification == [channel |-> channel, payload |-> JSONparse(payload),
                         timestamp |-> id]
        mirror == IF Mirrored(channel)
                  THEN syncToMeili(payload.action, payload.data)
                  ELSE "none"
        b == broadcastNotification(notification, IF mirror = "none" THEN bad ELSE 0)
    IN [id |-> id, channel |-> channel, payload |-> payload, open |-> open,
        sent |-> IF mirror = "none" THEN b.got ELSE <<>>,
        frames |-> IF mirror = "none" THEN b.frames ELSE <<>>,
        got |-> IF mirror = "none" THEN Range(b.got) ELSE {},
        bad |-> IF b.threw THEN bad ELSE 0,
        bcasts |-> IF mirror = "none" THEN 1 ELSE 0,
        count |-> IF mirror = "none" THEN b.count ELSE 0,
        mirror |-> mirror,
        key |-> IF mirror \in {"add", "delete"}
                THEN DocumentId(payload.data) ELSE Absent,
        threw |-> ParseThrows(payload) \/ MirrorThrows(channel, payload) \/ b.threw]

\* pgClient.on('notification') as a whole: what it did with one notification.
\* The timestamp of the notification object is taken once, before the
\* broadcast; the notification id stands for the clock.
notificationHandler(id, channel, payload, bad) ==
    LET open == Range(OpenClients) IN
    IF ParseThrows(payload) \/ MirrorThrows(channel, payload)
    THEN [id |-> id, channel |-> channel, payload |-> payload, open |-> open,
          sent |-> <<>>, frames |-> <<>>, got |-> {}, bad |-> 0, bcasts |-> 0,
          count |-> 0, mirror |-> "none", key |-> Absent, threw |-> TRUE]
    ELSE LET notification == [channel |-> channel,
                              payload |-> JSONparse(payload),
                              timestamp |-> id]
             mirror == IF Mirrored(channel)
                       THEN syncToMeili(payload.action, payload.data)
                       ELSE "none"
             b == broadcastNotification(notification, bad)
         IN [id |-> id, channel |-> channel, payload |-> payload, open |-> open,
             sent |-> b.got, frames |-> b.frames, got |-> Range(b.got),
             bad |-> IF b.threw THEN bad ELSE 0,
             bcasts |-> 1, count |-> b.count,
             mirror |-> mirror,
             key |-> IF mirror \in {"add", "delete"}
                     THEN DocumentId(payload.data) ELSE Absent,
             threw |-> b.threw]

\* (mutant) a frame is put before the frames the socket was handed earlier.
HandedFirst(frames, n, id) == [i \in 1..n |-> id] \o frames

\* client.send on a socket, n times for notification id: the frames go out
\* after those the socket was handed before, in the order of the calls.
Handed(frames, n, id) == frames \o [i \in 1..n |-> id]

\* The handler runs on one notification: every socket is handed the frame
\* as many times as the broadcast sent it, an "add" or "delete" leaves an
\* index call in flight, and an exception leaving the handler is an uncaught
\* exception of the process.
HandleNotification(channel, payload, bad) ==
    /\ Idle /\ pg \in {"up", "ending"} /\ channel \in subs
    /\ bad \in {0} \cup Range(OpenClients)
    /\ LET r == notificationHandler(nseq + 1, channel, payload, bad) IN
       /\ lastNotif' = r
       /\ recv' = [c \in Conns |->
                     Handed(recv[c], Times(r.sent, c), r.id)]
       /\ syncing' = IF r.mirror \in {"add", "delete"}
                     THEN syncing + 1 ELSE syncing
       /\ proc' = IF r.threw THEN "crashed" ELSE proc
    /\ nseq' = nseq + 1
    /\ UNCHANGED <<lastMsg, pg, subs, http, sd, clients, st, pending, user,
                   handlers, welcome, closeInfo, known>>

\* The datastore delivers one notification on a channel the client listens
\* on.  pgClient.end() does not take back notifications already on the
\* wire, so they are still handled while it is awaited.
Notification(channel, payload, bad) ==
    /\ nseq < MaxNotifs
    /\ HandleNotification(channel, payload, bad)

\* The same in the relay specification, which goes on to a second
\* notification.
RelayNotification(channel, payload, bad) ==
    /\ nseq < MaxRelayNotifs
    /\ HandleNotification(channel, payload, bad)

\* An index call resolves or rejects: syncToMeili logs either outcome and
\* returns.
IndexCallSettles ==
    /\ Idle /\ syncing > 0
    /\ syncing' = syncing - 1
    /\ UNCHANGED <<lastMsg, proc, pg, subs, http, sd, clients, st, pending, user,
                   handlers, welcome, closeInfo, recv, nseq, lastNotif, known>>

\* ------------------------------------------------------------ shutdown
\* client.close(1001, ...) on each member of wss.clients: an OPEN socket
\* sends the close frame and is CLOSING; on any other socket close() sends
\* nothing.
CloseTargets == {c \in Range(clients) : st[c] = "OPEN"}

\* SIGTERM / SIGINT: shutdown() up to its await of pgClient.end().
Shutdown ==
    /\ Idle /\ sd = "none"
    /\ st' = [c \in Conns |-> IF c \in CloseTargets THEN "CLOSING" ELSE st[c]]
    /\ closeInfo' = [c \in Conns |->
                       IF c \in CloseTargets
                       THEN [code |-> GoingAway, reason |-> ServerShuttingDown]
                       ELSE closeInfo[c]]
    /\ pg' = "ending"
    /\ sd' = "awaitEnd"
    /\ known' = Range(clients)
    /\ UNCHANGED <<lastMsg, proc, subs, http, clients, pending, user, handlers, welcome,
                   recv, nseq, lastNotif, syncing>>

\* pgClient.end() resolves; shutdown() goes on to server.close(callback),
\* which stops the listener at once.
PgEnded ==
    /\ Idle /\ sd = "awaitEnd"
    /\ pg' = "ended"
    /\ http' = "closed"
    /\ sd' = "awaitClose"
    /\ UNCHANGED <<lastMsg, proc, subs, clients, st, pending, user, handlers, welcome,
                   closeInfo, recv, nseq, lastNotif, syncing, known>>

\* The callback of server.close runs once the server holds no connection:
\* shutdown() resolves and the signal handler calls process.exit(0).
ServerClosed ==
    /\ Idle /\ sd = "awaitClose"
    /\ \A c \in Conns : st[c] \in {"unused", "CLOSED"}
    /\ sd' = "resolved"
    /\ proc' = "exit0"
    /\ UNCHANGED <<lastMsg, pg, subs, http, clients, st, pending, user, handlers,
                   welcome, closeInfo, recv, nseq, lastNotif, syncing, known>>

\* ---------------------------------------------------- inbound messages
\* the frames handleMessage sends, as the text JSON.stringify gives
InvalidMessageFormat ==
    ObjectText(<<<<"type", Quote("error")>>,
                 <<"message", Quote("Invalid message format")>>>>)

RejectionHint == "POST /rpc/lock_contact or /rpc/unlock_contact"

LockRejection ==
    ObjectText(<<<<"type", Quote("error")>>,
                 <<"message", Quote("Please use PostgREST RPC endpoints for lock/unlock operations")>>,
                 <<"hint", Quote(RejectionHint)>>>>)

\* new Date().toISOString() at the time of the reply
Pong ==
    ObjectText(<<<<"type", Quote("pong")>>, <<"timestamp", Quote("<now>")>>>>)

\* The send calls of one run, in order, and those of them that handed a
\* frame to the transport: a call that raises hands over nothing, nor does
\* a call on a socket that is no longer OPEN.
Delivered(calls, open, failing) ==
    LET idx == SelectSeq([i \in 1..Len(calls) |-> i],
                         LAMBDA i : open /\ i \notin failing)
    IN [k \in 1..Len(idx) |-> calls[idx[k]]]

\* handleMessage(ws, message).  open: ws.readyState is OPEN; failing: the
\* send calls of this run that raise.  JSON.parse raises on text that is not
\* JSON, data.action raises on null; the catch block replies "Invalid
\* message format" and rethrows whatever the try block raised, a raising
\* reply included.
handleMessage(open, msg, failing) ==
    LET tryReply == IF msg.raw # "object" THEN <<>>
                    ELSE IF msg.action \in {"lock", "unlock"} THEN <<LockRejection>>
                    ELSE IF msg.type = "ping" THEN <<Pong>>
                    ELSE <<>>
        tryThrows == msg.raw # "object" \/ (tryReply # <<>> /\ 1 \in failing)
        calls == tryReply \o (IF tryThrows THEN <<InvalidMessageFormat>> ELSE <<>>)
    IN [calls |-> calls,
        replies |-> Delivered(calls, open, failing),
        ret |-> IF tryThrows THEN "<threw>"
                ELSE IF msg.action \in {"lock", "unlock"} THEN "undefined"
                ELSE "data",
        data |-> msg,
        threw |-> tryThrows]

\* (mutant) a reply goes to every open member of wss.clients.
ReplyTargetsEveryone(ws) == Range(OpenClients)

\* ws.send(...) in handleMessage: every reply goes to the socket the
\* message came in on.
ReplyTargets(ws) == {ws}

\* A socket that can still deliver a message: OPEN, or CLOSING because the
\* server sent its close frame and the peer has not answered yet.
Receiving(c) ==
    \/ st[c] = "OPEN"
    \/ st[c] = "CLOSING" /\ closeInfo[c] # NoClose

\* ws.on('message', data => handleMessage(ws, data)) on an admitted socket.
\* The listener has no handler around the call: what handleMessage throws
\* is an uncaught exception of the process.
Message(c, msg, failing) ==
    /\ Idle /\ handlers[c] /\ Receiving(c)
    /\ LET r == handleMessage(st[c] = "OPEN", msg, failing) IN
       /\ lastMsg' = [conn |-> c, msg |-> msg, open |-> st[c] = "OPEN",
                      calls |-> r.calls, replies |-> r.replies,
                      to |-> IF r.replies # <<>> THEN ReplyTargets(c) ELSE {},
                      ret |-> r.ret,
                      data |-> r.data, threw |-> r.threw]
       /\ proc' = IF r.threw THEN "crashed" ELSE proc
    /\ UNCHANGED <<pg, subs, http, sd, clients, st, pending, user, handlers,
                   welcome, closeInfo, recv, nseq, lastNotif, syncing, known>>

\* -------------------------------------------------------- specification
\* The life of the relay: startup, admissions, closes, loss of the
\* datastore, one notification and shutdown.  Inbound messages and longer
\* runs of notifications are in NextMsg and NextRelay below.
Next ==
    \/ PgConnect
    \/ PgListen
    \/ Start
    \/ ConnectFail
    \/ PgError
    \/ \E c \in Conns, token \in Tokens : Upgrade(c, token)
    \/ \E sendThrows \in BOOLEAN : ConnectionHandler(sendThrows)
    \/ \E c \in Conns : PeerClose(c)
    \/ \E c \in Conns : TransportClosed(c)
    \/ \E channel \in Channels, bad \in {0} \cup Conns :
          \E payload \in PayloadsOn(channel) : Notification(channel, payload, bad)
    \/ IndexCallSettles
    \/ Shutdown
    \/ PgEnded
    \/ ServerClosed

Spec == Init /\ [][Next]_vars

\* A socket that was sent a close frame (by close(1001), by close(1008) or
\* in answer to the peer's close frame) finishes closing.
CloseFinishes(c) == st[c] = "CLOSING" /\ TransportClosed(c)

\* The life of the relay under the scheduling the runtime gives: a
\* 'connection' event that was emitted is handled, pgClient.end() completes,
\* every socket that was sent a close frame finishes closing, and the
\* callback of server.close runs once no connection is left.
SpecLive ==
    /\ Spec
    /\ WF_vars(\E sendThrows \in BOOLEAN : ConnectionHandler(sendThrows))
    /\ WF_vars(PgEnded)
    /\ \A c \in Conns : WF_vars(CloseFinishes(c))
    /\ WF_vars(ServerClosed)

\* The relay at work: startup, admissions, closes and the notification
\* handler on every kind of payload, two notifications deep, with the index
\* calls it leaves in flight.
NextRelay ==
    \/ PgConnect
    \/ PgListen
    \/ Start
    \/ \E c \in Conns, token \in {TokNull, TokFull} : Upgrade(c, token)
    \/ \E sendThrows \in BOOLEAN : ConnectionHandler(sendThrows)
    \/ \E c \in Conns : PeerClose(c)
    \/ \E c \in Conns : TransportClosed(c)
    \/ \E channel \in Channels, bad \in {0} \cup Conns :
          \E payload \in RelayPayloadsOn(channel) :
             RelayNotification(channel, payload, bad)
    \/ IndexCallSettles

SpecRelay == Init /\ [][NextRelay]_vars

\* The clients at work: startup, admissions, inbound messages on admitted
\* sockets, lock notifications with an object payload, closes and shutdown.
NextMsg ==
    \/ PgConnect
    \/ PgListen
    \/ Start
    \/ \E c \in Conns, token \in {TokNull, TokFull} : Upgrade(c, token)
    \/ \E sendThrows \in BOOLEAN : ConnectionHandler(sendThrows)
    \/ \E c \in Conns : TransportClosed(c)
    \/ Notification(ContactLocks, Payload("object", Absent, Absent), 0)
    \/ \E c \in Conns, msg \in Messages, failing \in SendFailures :
          Message(c, msg, failing)
    \/ Shutdown
    \/ PgEnded
    \/ ServerClosed

SpecMsg == Init /\ [][NextMsg]_vars

\* Admission on every kind of token: startup, connection requests with the
\* tokens of ClaimTokens, the connection handler and closes.
NextToken ==
    \/ PgConnect
    \/ PgListen
    \/ Start
    \/ \E c \in Conns, token \in ClaimTokens : Upgrade(c, token)
    \/ \E sendThrows \in BOOLEAN : ConnectionHandler(sendThrows)
    \/ \E c \in Conns : TransportClosed(c)

SpecToken == Init /\ [][NextToken]_vars

\* ============================================================== claims
InRegistry(c) == c \in Range(clients)

\* the admission of socket c has run to its end
AdmissionDone(c) == st[c] # "unused" /\ pending.conn # c

\* a token that is absent or carries no email claim
NoEmailClaim(token) == token.kind # "jwt" \/ token.email = Absent

\* C1: in one broadcastNotification call a send that raises on one socket
\* does not abort delivery: every other socket that was OPEN at the call
\* still gets the frame, and the failing socket is not closed by the call.
C1_SendFailureIsolated ==
    lastNotif.bad # 0 =>
        /\ (lastNotif.open \ {lastNotif.bad}) \subseteq lastNotif.got
        /\ st[lastNotif.bad] = "OPEN"

\* C2: a notification whose raw payload is not JSON is dropped: it is not
\* broadcast, not mirrored, and no exception leaves the notification
\* handler, so the process goes on handling notifications.
C2_MalformedPayloadDropped ==
    (lastNotif.id # 0 /\ lastNotif.payload.raw = "malformed") =>
        /\ lastNotif.bcasts = 0
        /\ lastNotif.mirror = "none"
        /\ ~lastNotif.threw
        /\ proc # "crashed"

\* C3: every notification whose payload decodes (a null or absent payload
\* included) is handed to broadcastNotification exactly once, on either
\* channel.
C3_DecodedAlwaysBroadcast ==
    (lastNotif.id # 0 /\ lastNotif.payload.raw # "malformed") =>
        lastNotif.bcasts = 1

\* C4: when shutdown() has resolved, pgClient has ended, the listener is
\* released and every admitted socket wss.clients held during the shutdown
\* was sent a close frame with code 1001.
C4_ShutdownResolvesAfterAll ==
    sd = "resolved" =>
        /\ pg = "ended"
        /\ http = "closed"
        /\ \A c \in known \cup Range(clients) :
              handlers[c] => closeInfo[c].code = GoingAway

\* C5: once shutdown() has been called no connection request is admitted:
\* no socket is sent the welcome frame or given its handlers.
C5_NoAdmissionWhileDraining ==
    [][sd # "none" =>
         \A c \in Conns : /\ welcome'[c] = "sent" => welcome[c] = "sent"
                          /\ handlers'[c] => handlers[c]]_vars

\* C6: the relay listens, holds a socket or has handed out a broadcast frame
\* only after connectDatabase completed: pgClient connected and LISTENing on
\* both channels.
C6_ListeningOnlyAfterConnecting ==
    (\/ http = "listening"
     \/ \E c \in Conns : st[c] # "unused"
     \/ \E c \in Conns : recv[c] # <<>>)
    => (pg # "new" /\ subs = Channels)

\* C6 witness: a socket was admitted and has been handed a broadcast frame.
C6_Witness ==
    \E c \in Conns : welcome[c] = "sent" /\ recv[c] # <<>> /\ subs = Channels

\* C7: after the connection to the datastore is lost the relay does not go
\* on admitting connections as if the event source were healthy.
C7_UpstreamLossEscalated ==
    [][pg = "lost" =>
         \A c \in Conns : welcome'[c] = "sent" => welcome[c] = "sent"]_vars

\* C8: outside the connection handler, wss.clients (what broadcast iterates
\* and /health counts) holds a socket if and only if the socket was admitted
\* and is OPEN.
C8_RegistryIffAdmittedOpen ==
    pending = NoPending =>
        /\ \A c \in Conns : InRegistry(c) <=> (handlers[c] /\ st[c] = "OPEN")
        /\ HealthConnections =
              Cardinality({c \in Conns : handlers[c] /\ st[c] = "OPEN"})

C10_WelcomeXorClose ==
    \A c \in Conns :
        AdmissionDone(c) =>
            /\ (welcome[c] = "sent") # (closeInfo[c].code = PolicyViolation)
            /\ handlers[c] <=> welcome[c] = "sent"

\* C10 witness: an admission whose welcome send raised.
C10_Witness ==
    \E c \in Conns :
        /\ AdmissionDone(c) /\ welcome[c] = "threw"
        /\ closeInfo[c].code = PolicyViolation

\* a notification has been handled
Handled == lastNotif.id # 0

\* the frame a client must be handed for the last notification: its channel,
\* its payload as the datastore sent it and the handler's timestamp
ExpectedFrame ==
    ObjectText(<<<<"channel", Quote(lastNotif.channel)>>,
                 <<"payload",
                   IF lastNotif.payload.raw \in {"empty", "null"} THEN "null"
                   ELSE ObjectText(
                          <<<<"id", OrAbsent(lastNotif.payload.id,
                                             Quote(lastNotif.payload.id))>>,
                            <<"action", OrAbsent(lastNotif.payload.action,
                                                 Quote(lastNotif.payload.action))>>,
                            <<"data", DataText(lastNotif.payload.data)>>>>)>>,
                 <<"timestamp", ToString(lastNotif.id)>>>>)

\* C11: a broadcastNotification call returns, and returns the number of
\* members of wss.clients that were OPEN at the call (0 when there is
\* none); each of them was handed the frame, and no other socket was.
C11_CountIsOpenMembers ==
    (Handled /\ lastNotif.bcasts = 1) =>
        /\ ~lastNotif.threw
        /\ lastNotif.count = Cardinality(lastNotif.open)
        /\ lastNotif.got = lastNotif.open

\* C12: within one broadcast every counted socket is handed the same text:
\* one frame per counted socket, all equal to the serialization of the one
\* notification object (its channel, payload and timestamp).
C12_IdenticalFrames ==
    Handled =>
        /\ Len(lastNotif.frames) = lastNotif.count
        /\ \A i \in 1..Len(lastNotif.frames) :
              lastNotif.frames[i] = ExpectedFrame

\* C12 witness: a broadcast that counted two sockets.
C12_Witness ==
    Handled /\ lastNotif.count = 2 /\ Len(lastNotif.frames) = 2

\* C13: a broadcast is one step over wss.clients as it is when the step
\* begins: the step changes neither wss.clients nor a readyState, hands the
\* event at most once to a socket, and only to sockets that were in
\* wss.clients when it began.
C13_BroadcastOverSnapshot ==
    [][nseq' # nseq =>
         /\ clients' = clients /\ st' = st
         /\ \A c \in Conns :
               \/ recv'[c] = recv[c]
               \/ InRegistry(c) /\ recv'[c] = Append(recv[c], nseq')]_vars

\* C13 witness: a socket admitted between two broadcasts was handed the
\* second event only, once; the socket that was there before has both.
C13_Witness ==
    \E c, d \in Conns : recv[c] = <<1, 2>> /\ recv[d] = <<2>>

\* C14: the index call is not waited for.  The step that starts it does the
\* broadcast of the same event; the step that settles it, either way, changes
\* nothing else; and an event handled while a call is in flight is handed
\* to broadcastNotification exactly when its payload decodes, to the
\* sockets OPEN at that step, events reaching each socket in the order
\* they were handled.
C14_MirrorFireAndForget ==
    [][/\ syncing' > syncing =>
             /\ lastNotif'.bcasts = 1
             /\ \A c \in lastNotif'.got : recv'[c] = Append(recv[c], nseq')
       /\ syncing' < syncing =>
             UNCHANGED <<recv, lastNotif, nseq, proc, clients, st>>
       /\ (nseq' # nseq /\ syncing > 0) =>
             /\ lastNotif'.bcasts = 1 <=>
                   ~(\/ ParseThrows(lastNotif'.payload)
                     \/ MirrorThrows(lastNotif'.channel, lastNotif'.payload))
             /\ (lastNotif'.bcasts = 1 /\ lastNotif'.bad = 0) =>
                   lastNotif'.got =
                       {c \in Conns : InRegistry(c) /\ st[c] = "OPEN"}
             /\ \A c \in Conns : \A i \in 1..Len(recv'[c]) - 1 :
                   recv'[c][i] < recv'[c][i + 1]]_vars

\* C14 witness: the second event, a lock event, was broadcast while the
\* index call of the first was still in flight.
C14_Witness ==
    /\ nseq = 2 /\ syncing = 1
    /\ lastNotif.channel = ContactLocks /\ lastNotif.got # {}
    /\ \E c \in Conns : recv[c] = <<1, 2>>

\* C15: the change notification {id: "123", action: "update", data: {...}}
\* with two admitted sockets: both are handed the frame with channel
\* contact_changes and that payload, and syncToMeili, called once, adds or
\* replaces the document with id "123".  In general an INSERT or UPDATE
\* makes one addDocuments call and a DELETE one deleteDocument call, keyed
\* on the id of the record.
C15_ScenarioMirrored ==
    /\ (Handled /\ lastNotif.payload = ScenarioPayload
        /\ lastNotif.channel = ContactChanges
        /\ Cardinality(lastNotif.open) = 2) =>
          /\ lastNotif.got = lastNotif.open
          /\ \A i \in 1..Len(lastNotif.frames) : lastNotif.frames[i] = ExpectedFrame
          /\ lastNotif.mirror = "add"
          /\ lastNotif.key = "123"
    /\ (Handled /\ lastNotif.channel = ContactChanges /\ ~lastNotif.threw
        /\ lastNotif.payload.action \in {"INSERT", "UPDATE"}
        /\ lastNotif.payload.data # Absent) =>
          /\ lastNotif.mirror = "add"
          /\ lastNotif.key = DocumentId(lastNotif.payload.data)
    /\ (Handled /\ lastNotif.channel = ContactChanges /\ ~lastNotif.threw
        /\ lastNotif.payload.action = "DELETE"
        /\ lastNotif.payload.data # Absent) =>
          /\ lastNotif.mirror = "delete"
          /\ lastNotif.key = DocumentId(lastNotif.payload.data)

\* C16: syncToMeili never raises to the notification handler: the promise
\* it returns is not rejected, whatever the action (an unknown one is logged)
\* and the record (a missing one included), so a notification that reached
\* the mirror and whose sends succeed leaves the process running; the index
\* call settling, either way, changes nothing but the count of calls in
\* flight.
C16_MirrorNeverRaises ==
    [][/\ nseq' # nseq =>
             /\ lastNotif'.mirror # "rejected"
             /\ (lastNotif'.mirror # "none" /\ lastNotif'.bad = 0) =>
                   ~lastNotif'.threw /\ proc' = proc
       /\ syncing' < syncing =>
             UNCHANGED <<proc, lastNotif, recv, nseq>>]_vars

\* C16 witness: an UPDATE without a record went through the mirror (the
\* TypeError of data.id was absorbed) and was broadcast.
C16_Witness ==
    /\ Handled /\ lastNotif.payload = Payload("object", "UPDATE", Absent)
    /\ lastNotif.mirror = "caught" /\ lastNotif.got # {} /\ proc = "running"

\* C17: a notification on contact_locks never reaches syncToMeili: the
\* mirror runs, and an index call is started, for contact_changes only.
C17_LocksNeverMirrored ==
    [][nseq' # nseq =>
         /\ lastNotif'.channel = ContactLocks =>
               /\ lastNotif'.mirror = "none" /\ lastNotif'.key = Absent
               /\ syncing' = syncing
         /\ lastNotif'.mirror # "none" => lastNotif'.channel = ContactChanges]_vars

\* C17 witness: a lock notification with an object payload was broadcast.
C17_Witness ==
    /\ Handled /\ lastNotif.channel = ContactLocks
    /\ lastNotif.payload.raw = "object" /\ lastNotif.got # {}

\* an inbound message has been handled, on a socket that was OPEN
Received == lastMsg.conn # 0 /\ lastMsg.open

\* C18: on an OPEN admitted socket an inbound message that is not JSON gets
\* exactly one reply, the error "Invalid message format", handleMessage
\* throws to its caller, and the process survives: the socket and the
\* others are still served.
C18_MalformedMessageSurvives ==
    (Received /\ lastMsg.msg.raw = "malformed") =>
        /\ lastMsg.replies = <<InvalidMessageFormat>>
        /\ lastMsg.threw
        /\ proc # "crashed"

\* C19: on an OPEN admitted socket a message with type "ping" gets exactly one
\* reply, the pong frame with its timestamp, and no other reply.
C19_PingGetsOnePong ==
    (Received /\ lastMsg.msg.raw = "object" /\ lastMsg.msg.type = "ping") =>
        lastMsg.replies = <<Pong>>

\* C20: on an OPEN socket a message with action "lock" or "unlock" changes
\* no state of the relay (wss.clients, identities, readyStates, handlers, the datastore
\* client and its subscriptions, the process) and gets exactly one reply,
\* the error frame with the hint.
C20_LockRejectedOnly ==
    [][(lastMsg' # lastMsg /\ lastMsg'.open /\ lastMsg'.msg.raw = "object"
        /\ lastMsg'.msg.action \in {"lock", "unlock"}) =>
          /\ UNCHANGED <<clients, user, st, handlers, pg, subs, sd, http, proc>>
          /\ lastMsg'.replies = <<LockRejection>>]_vars

\* C21: on an OPEN admitted socket every well-formed message (JSON null
\* included) that is neither a ping nor a lock / unlock action is returned
\* to the caller as parsed, and no reply is sent for it.
C21_OtherMessageReturned ==
    (Received /\ lastMsg.msg.raw # "malformed"
     /\ lastMsg.msg.type # "ping"
     /\ lastMsg.msg.action \notin {"lock", "unlock"}) =>
        /\ lastMsg.ret = "data"
        /\ lastMsg.data = lastMsg.msg
        /\ lastMsg.calls = <<>>
        /\ lastMsg.replies = <<>>

\* C27: handleMessage sends the "Invalid message format" reply, and throws,
\* only on a message that is not JSON; a well-formed message (JSON null, a
\* ping or a lock / unlock whose reply send raises) gets no such reply.
C27_InvalidFormatOnlyForNonJSON ==
    (Received /\ lastMsg.msg.raw # "malformed") =>
        /\ \A i \in 1..Len(lastMsg.calls) : lastMsg.calls[i] # InvalidMessageFormat
        /\ ~lastMsg.threw

\* a claim of a token is present: it is there and not the empty string
HasClaim(v) == v # Absent /\ v # ""

\* the connection handler ends its run on the pending request
AdmissionStep == pending # NoPending /\ pending' = NoPending

\* C22: for every token with an email claim the identity validateToken
\* resolves, which the handler attaches to the socket, has the email claim
\* as email, as name the name claim if present, else preferred_username if
\* present, else "Unknown", and as sessionId the sid claim, absent when
\* the token has none.
C22_NameResolution ==
    [][(AdmissionStep /\ pending.token.kind = "jwt"
        /\ HasClaim(pending.token.email)) =>
         LET t == pending.token
             u == user'[pending.conn]
         IN /\ u.email = t.email
            /\ u.name = (IF HasClaim(t.name) THEN t.name
                         ELSE IF HasClaim(t.preferred_username)
                         THEN t.preferred_username
                         ELSE Unknown)
            /\ u.sessionId = t.sid]_vars

\* C22 witness: two sockets were admitted, one with the name resolved from
\* preferred_username, one with the name "Unknown" and no session id.
C22_Witness ==
    /\ pending = NoPending
    /\ \E c, d \in Conns :
          /\ user[c].name = "testuser" /\ user[c].email = "test@example.com"
          /\ user[d].name = Unknown /\ user[d].sessionId = Absent
          /\ welcome[c] = "sent" /\ welcome[d] = "sent"

\* C23: validateToken fails with "No token provided" exactly when no token
\* is supplied (no parameter or an empty one), with "Invalid token payload"
\* exactly when the token does not decode or has no email claim, and
\* returns an identity otherwise; a token without an email claim is never
\* given an identity.
C23_TokenErrors ==
    [][AdmissionStep =>
         LET t == pending.token
             c == pending.conn
             missing == t.kind \in {"null", "empty"}
             invalid == t.kind = "garbage"
                          \/ (t.kind = "jwt" /\ ~HasClaim(t.email))
         IN /\ closeInfo'[c].reason = NoTokenProvided <=> missing
            /\ closeInfo'[c].reason = InvalidTokenPayload <=> invalid
            /\ user'[c] # NoUser <=> ~(missing \/ invalid)
            /\ (missing \/ invalid) =>
                  /\ closeInfo'[c].code = PolicyViolation
                  /\ ~handlers'[c] /\ welcome'[c] = "none"
            /\ user'[c] # NoUser => HasClaim(user'[c].email)]_vars

\* C23 witness: a token with an empty email claim was refused as invalid and
\* one without the token parameter as missing.
C23_Witness ==
    /\ pending = NoPending
    /\ \E c, d \in Conns :
          /\ closeInfo[c].reason = InvalidTokenPayload
          /\ closeInfo[d].reason = NoTokenProvided
          /\ user[c] = NoUser /\ user[d] = NoUser

\* C24: a failure is told to the socket that caused it and to no other:
\* the replies of handleMessage (the lock rejection and "Invalid message
\* format" among them) go to the sender and are not broadcast, and the
\* connection handler closes (1008 on a rejected admission) and changes no
\* socket but the one of the request.
C24_FailuresToSenderOnly ==
    [][/\ lastMsg' # lastMsg =>
             /\ lastMsg'.to \subseteq {lastMsg'.conn}
             /\ recv' = recv /\ closeInfo' = closeInfo /\ st' = st
       /\ AdmissionStep =>
             \A d \in Conns \ {pending.conn} :
                /\ closeInfo'[d] = closeInfo[d] /\ st'[d] = st[d]
                /\ welcome'[d] = welcome[d] /\ recv'[d] = recv[d]]_vars

\* C24 witness: with two sockets open, one was sent "Invalid message format"
\* for its message.
C24_Witness ==
    /\ lastMsg.conn # 0 /\ lastMsg.replies = <<InvalidMessageFormat>>
    /\ lastMsg.to = {lastMsg.conn}
    /\ \E d \in Conns \ {lastMsg.conn} : handlers[d] /\ st[d] = "OPEN"

\* the connection handler refused the request on socket c (close 1008)
Rejected(c) == closeInfo[c].code = PolicyViolation

\* C26: a socket whose admission was rejected is never served: it has no
\* message handler, so no inbound message of it is processed or answered,
\* it is handed no welcome frame and no broadcast frame, whatever
\* notifications and messages of other sockets are handled while it closes.
C26_RejectedNeverServed ==
    [][\A c \in Conns :
          closeInfo'[c].code = PolicyViolation =>
             /\ ~handlers'[c]
             /\ welcome'[c] # "sent"
             /\ recv'[c] = <<>>
             /\ lastMsg' # lastMsg => lastMsg'.conn # c]_vars

\* C26 witness: a notification was broadcast to an admitted socket while a
\* rejected socket, still closing, was in wss.clients, and was not handed
\* to it.
C26_Witness ==
    \E c \in Conns :
        /\ Rejected(c) /\ InRegistry(c) /\ st[c] = "CLOSING"
        /\ Handled /\ lastNotif.got # {} /\ c \notin lastNotif.got
        /\ recv[c] = <<>>

\* C25: notifications are handled one at a time in the order the datastore
\* delivered them: each run of the handler takes the next notification,
\* does its whole broadcast in that run, and puts its frame after the
\* frames every socket was handed before, so a socket has the frames of any
\* two notifications (of one channel or of both) in delivery order.
C25_DeliveryOrder ==
    [][/\ nseq' # nseq =>
             /\ nseq' = nseq + 1 /\ lastNotif'.id = nseq'
             /\ \A c \in Conns :
                   \/ recv'[c] = recv[c]
                   \/ recv'[c] = Append(recv[c], nseq')
       /\ nseq' = nseq => recv' = recv
       /\ \A c \in Conns : \A i, j \in 1..Len(recv'[c]) :
             i < j => recv'[c][i] < recv'[c][j]]_vars

\* C25 witness: a socket that stayed open has the frames of two
\* notifications, the first before the second.
C25_Witness ==
    /\ nseq = 2 /\ lastNotif.channel = ContactLocks /\ syncing = 0
    /\ \E c \in Conns : st[c] = "OPEN" /\ recv[c] = <<1, 2>>

\* C28: once a close has been started on a socket (the server called
\* close with 1001 or 1008, or the peer's close frame came in) or the socket
\* is closed, no broadcast frame is handed to it any more, also not for a
\* notification handled while shutdown() awaits pgClient.end().
C28_NoBroadcastAfterClose ==
    [][\A c \in Conns :
          st[c] \in {"CLOSING", "CLOSED"} => recv'[c] = recv[c]]_vars

\* C28 witness: during shutdown() a notification was broadcast to a socket
\* admitted after the close frames went out, and not to the socket that
\* shutdown() had sent the close frame to and that is still in wss.clients.
C28_Witness ==
    \E c, d \in Conns :
        /\ sd = "awaitEnd" /\ Handled
        /\ InRegistry(c) /\ st[c] = "CLOSING" /\ closeInfo[c].code = GoingAway
        /\ recv[c] = <<>>
        /\ closeInfo[d] = NoClose /\ st[d] = "OPEN" /\ d \in lastNotif.got

\* C29: shutdown() called on the listening relay eventually resolves (the
\* process exits with 0), given that pgClient.end() completes and every
\* socket that was sent a close frame finishes closing, whatever connection
\* requests and notifications come in meanwhile.  A process ended by an
\* uncaught exception counts as stopped.
C29_ShutdownResolves ==
    (sd = "awaitEnd" /\ http = "listening")
        ~> (sd = "resolved" \/ proc # "running")

====
